---- MODULE Spec2Model ----
(* django-vue: server-rendered Django views repackaged as Vue components.   *)
(* Model of src/django_vue/views.py (DjangoVueComponent) and                *)
(* src/django_vue/mixins.py (DjangoVueComponentMixin).                      *)
(* Python strings the code inspects character by character are modelled as  *)
(* sequences of one-character strings.                                      *)
EXTENDS Integers, Sequences, FiniteSets, TLC

VARIABLES
  handler,      \* which class handles the request: "view" (views.py) or "mixin" (mixins.py)
  components,   \* self.vue_components, in insertion order: the i-th entry has key i
  routes,       \* self.vue_routes, in insertion order: the i-th entry has path i
  root,         \* self, the view whose get is called
  page,         \* the document super().get rendered
  content,      \* response.content
  soup,         \* the parsed document get works on
  styles,       \* the local list styles of get
  scripts,      \* the local list scripts of get
  vue,          \* the bootstrapping script, a sequence of statements
  pc,           \* position of get
  viewRequest,  \* the attribute request of each view object of the class-level mappings
  className,    \* self.__class__.__name__ given to get_vue_name
  vueName,      \* the result of get_vue_name
  template,     \* the rendered text given to the delimiter rewrite
  rewritten,    \* the result of the delimiter rewrite
  reqPc,        \* per request: position inside get_vue_template
  reqIdx,       \* per request: index of the instance whose template is being rendered
  reqUsed       \* per request: the request each template was rendered with

getVars == <<handler, components, routes, root, page, content, soup, styles, scripts, vue, pc>>
nameVars == <<className, vueName>>
rewriteVars == <<template, rewritten>>
requestVars == <<reqPc, reqIdx, reqUsed>>
vars == <<getVars, viewRequest, nameVars, rewriteVars, requestVars>>

\* Value of the variables a specification does not use.
Unused == "unused"
GetUnused ==
  /\ handler = Unused /\ components = Unused /\ routes = Unused /\ root = Unused
  /\ page = Unused /\ content = Unused /\ soup = Unused /\ styles = Unused
  /\ scripts = Unused /\ vue = Unused /\ pc = Unused /\ viewRequest = Unused
NameUnused == className = Unused /\ vueName = Unused
RewriteUnused == template = Unused /\ rewritten = Unused
RequestsUnused == reqPc = Unused /\ reqIdx = Unused /\ reqUsed = Unused

\* Python's None, where the model keeps strings.
None == "None"

-----------------------------------------------------------------------------
(* Strings *)

LowerCase == <<"a", "b", "c", "d", "e", "f", "g", "h", "i", "j", "k", "l", "m", "n", "o", "p", "q", "r", "s", "t", "u", "v", "w", "x", "y", "z">>
UpperCase == <<"A", "B", "C", "D", "E", "F", "G", "H", "I", "J", "K", "L", "M", "N", "O", "P", "Q", "R", "S", "T", "U", "V", "W", "X", "Y", "Z">>

\* str.upper on one character
ToUpper(c) ==
  IF \E i \in 1..Len(LowerCase) : LowerCase[i] = c
  THEN UpperCase[CHOOSE i \in 1..Len(LowerCase) : LowerCase[i] = c]
  ELSE c

EndsWith(s, suffix) ==
  /\ Len(s) >= Len(suffix)
  /\ SubSeq(s, Len(s) - Len(suffix) + 1, Len(s)) = suffix

DropLast(s, n) == SubSeq(s, 1, Len(s) - n)

\* Python's `name in x` on strings
Contains(name, x) ==
  \E i \in 0..(Len(x) - Len(name)) : SubSeq(x, i + 1, i + Len(name)) = name

SuffixComponent == <<"c", "o", "m", "p", "o", "n", "e", "n", "t">>
SuffixView == <<"v", "i", "e", "w">>

\* re.sub(r"(component|view)$", "", s, re.IGNORECASE): the fourth positional
\* parameter of re.sub is count, so re.IGNORECASE (= 2) is taken as count and the
\* flags stay 0: the pattern is matched case-sensitively. It is anchored at the
\* end of the string, so at most one match exists whatever the count.
StripSuffix(s) ==
  IF EndsWith(s, SuffixComponent) THEN DropLast(s, Len(SuffixComponent))
  ELSE IF EndsWith(s, SuffixView) THEN DropLast(s, Len(SuffixView))
  ELSE s

\* inflection.camelize(s): re.sub(r"(?:^|_)(.)", lambda m: m.group(1).upper(), s)
RECURSIVE CamelizeFrom(_, _)
CamelizeFrom(s, i) ==
  IF i > Len(s) THEN <<>>
  ELSE IF i = 1 THEN <<ToUpper(s[1])>> \o CamelizeFrom(s, 2)
  ELSE IF s[i] = "_" /\ i < Len(s) THEN <<ToUpper(s[i + 1])>> \o CamelizeFrom(s, i + 2)
  ELSE <<s[i]>> \o CamelizeFrom(s, i + 1)

camelize(s) == CamelizeFrom(s, 1)

get_vue_name(cls) == camelize(StripSuffix(cls))

-----------------------------------------------------------------------------
(* get_vue_name on its own: the class name is the input *)

Stems ==
  { <<"H", "o", "m", "e">>,
    <<"N", "a", "v", "_", "b", "a", "r">>,
    <<"a", "b", "o", "u", "t">>,
    <<"U", "s", "e", "r">>,
    <<"R", "e">>,
    <<"M", "y", "_">>,
    <<>> }

Endings ==
  { <<>>,
    <<"V", "i", "e", "w">>,
    <<"v", "i", "e", "w">>,
    <<"V", "I", "E", "W">>,
    <<"V", "i", "E", "w">>,
    <<"C", "o", "m", "p", "o", "n", "e", "n", "t">>,
    <<"c", "o", "m", "p", "o", "n", "e", "n", "t">>,
    <<"C", "O", "M", "P", "O", "N", "E", "N", "T">>,
    <<"V", "i", "e", "w", "s">> }

\* A Python class name is never empty.
ClassNames == { s \o e : s \in Stems, e \in Endings } \ { <<>> }

NotYet == [done |-> FALSE, value |-> <<>>]
Result(v) == [done |-> TRUE, value |-> v]

NameInit ==
  /\ className \in ClassNames
  /\ vueName = NotYet
  /\ GetUnused
  /\ RewriteUnused
  /\ RequestsUnused

GetVueName ==
  /\ ~vueName.done
  /\ vueName' = Result(get_vue_name(className))
  /\ UNCHANGED <<className, getVars, viewRequest, rewriteVars, requestVars>>

NameNext == GetVueName

SpecName == NameInit /\ [][NameNext]_vars

-----------------------------------------------------------------------------
(* The delimiter rewrite of get_vue_template on its own *)

MaxTemplateLen == 5

TemplateChars == {"[", "]", "{", "}", "x"}

Templates == UNION { [1..n -> TemplateChars] : n \in 0..MaxTemplateLen }

\* str.replace(old, new) with count 1: only the leftmost occurrence.
RECURSIVE ReplaceFirst(_, _, _)
ReplaceFirst(s, old, new) ==
  IF Len(s) < Len(old) THEN s
  ELSE IF SubSeq(s, 1, Len(old)) = old
       THEN new \o SubSeq(s, Len(old) + 1, Len(s))
       ELSE <<s[1]>> \o ReplaceFirst(Tail(s), old, new)

\* str.replace(old, new): every non-overlapping occurrence, scanning from the left.
RECURSIVE Replace(_, _, _)
Replace(s, old, new) ==
  IF Len(s) < Len(old) THEN s
  ELSE IF SubSeq(s, 1, Len(old)) = old
       THEN new \o Replace(SubSeq(s, Len(old) + 1, Len(s)), old, new)
       ELSE <<s[1]>> \o Replace(Tail(s), old, new)

\* template.replace("[[", "{{").replace("]]", "}}")
DelimiterRewrite(t) ==
  Replace(Replace(t, <<"[", "[">>, <<"{", "{">>), <<"]", "]">>, <<"}", "}">>)

RewriteInit ==
  /\ template \in Templates
  /\ rewritten = NotYet
  /\ GetUnused
  /\ NameUnused
  /\ RequestsUnused

RewriteDelimiters ==
  /\ ~rewritten.done
  /\ rewritten' = Result(DelimiterRewrite(template))
  /\ UNCHANGED <<template, getVars, viewRequest, nameVars, requestVars>>

RewriteNext == RewriteDelimiters

SpecRewrite == RewriteInit /\ [][RewriteNext]_vars

-----------------------------------------------------------------------------
(* Documents *)

\* The text of every string the code searches in or for.
Text ==
  [ s \in { "vue", "vue-router", "vue3-sfc-loader", "axios", "django-vue",
            "https://unpkg.com/vue@next", "https://unpkg.com/vue-router@next",
            "https://cdn.jsdelivr.net/npm/vue3-sfc-loader/dist/vue3-sfc-loader.js",
            "https://unpkg.com/axios/dist/axios.min.js", "/static/django-vue.js",
            "/static/app.js" } |->
    CASE s = "vue" -> <<"v", "u", "e">>
      [] s = "vue-router" -> <<"v", "u", "e", "-", "r", "o", "u", "t", "e", "r">>
      [] s = "vue3-sfc-loader" -> <<"v", "u", "e", "3", "-", "s", "f", "c", "-", "l", "o", "a", "d", "e", "r">>
      [] s = "axios" -> <<"a", "x", "i", "o", "s">>
      [] s = "django-vue" -> <<"d", "j", "a", "n", "g", "o", "-", "v", "u", "e">>
      [] s = "https://unpkg.com/vue@next" -> <<"h", "t", "t", "p", "s", ":", "/", "/", "u", "n", "p", "k", "g", ".", "c", "o", "m", "/", "v", "u", "e", "@", "n", "e", "x", "t">>
      [] s = "https://unpkg.com/vue-router@next" -> <<"h", "t", "t", "p", "s", ":", "/", "/", "u", "n", "p", "k", "g", ".", "c", "o", "m", "/", "v", "u", "e", "-", "r", "o", "u", "t", "e", "r", "@", "n", "e", "x", "t">>
      [] s = "https://cdn.jsdelivr.net/npm/vue3-sfc-loader/dist/vue3-sfc-loader.js" -> <<"h", "t", "t", "p", "s", ":", "/", "/", "c", "d", "n", ".", "j", "s", "d", "e", "l", "i", "v", "r", ".", "n", "e", "t", "/", "n", "p", "m", "/", "v", "u", "e", "3", "-", "s", "f", "c", "-", "l", "o", "a", "d", "e", "r", "/", "d", "i", "s", "t", "/", "v", "u", "e", "3", "-", "s", "f", "c", "-", "l", "o", "a", "d", "e", "r", ".", "j", "s">>
      [] s = "https://unpkg.com/axios/dist/axios.min.js" -> <<"h", "t", "t", "p", "s", ":", "/", "/", "u", "n", "p", "k", "g", ".", "c", "o", "m", "/", "a", "x", "i", "o", "s", "/", "d", "i", "s", "t", "/", "a", "x", "i", "o", "s", ".", "m", "i", "n", ".", "j", "s">>
      [] s = "/static/django-vue.js" -> <<"/", "s", "t", "a", "t", "i", "c", "/", "d", "j", "a", "n", "g", "o", "-", "v", "u", "e", ".", "j", "s">>
      [] s = "/static/app.js" -> <<"/", "s", "t", "a", "t", "i", "c", "/", "a", "p", "p", ".", "j", "s">> ]

\* An element of the parsed document. id tells where the element came from:
\* its path in the head or the body of the rendered page, or the soup.new_tag
\* call that made it. src is the attribute src (None when absent); string is
\* the text of the script get builds, a sequence of statements.
Node(origin, at, tag, src, children) ==
  [id |-> [origin |-> origin, at |-> at], tag |-> tag, src |-> src,
   children |-> children, string |-> <<>>]

\* The document find_all searches: head and body may each be missing.
Document(hasHead, head, hasBody, body) ==
  [hasHead |-> hasHead, head |-> head, hasBody |-> hasBody, body |-> body]

\* Every element at or below the given ones, in document order.
RECURSIVE Descendants(_)
Descendants(nodes) ==
  IF nodes = <<>> THEN <<>>
  ELSE <<Head(nodes)>> \o Descendants(Head(nodes).children) \o Descendants(Tail(nodes))

\* Only the given elements themselves: a search that does not recurse.
FindAllTopLevel(nodes, tag) == SelectSeq(nodes, LAMBDA n : n.tag = tag)

\* tag.find_all(name): every descendant with that tag name, in document order.
FindAll(nodes, tag) == SelectSeq(Descendants(nodes), LAMBDA n : n.tag = tag)

\* The tree after [e.extract() for e in found]: the found elements are gone.
RECURSIVE Extracted(_, _)
Extracted(nodes, tag) ==
  IF nodes = <<>> THEN <<>>
  ELSE IF Head(nodes).tag = tag THEN Extracted(Tail(nodes), tag)
  ELSE <<[Head(nodes) EXCEPT !.children = Extracted(Head(nodes).children, tag)]>>
         \o Extracted(Tail(nodes), tag)

\* soup.find_all("script", ...): the scripts of the whole document.
AllScripts(doc) == FindAll(doc.head \o doc.body, "script")

\* script_present(name): a script whose src is set and contains name.
script_present(doc, name) ==
  \E i \in 1..Len(AllScripts(doc)) :
    /\ AllScripts(doc)[i].src # None
    /\ Contains(Text[name], Text[AllScripts(doc)[i].src])

\* The libraries DjangoVueComponent.get looks for, in the order of the code,
\* each with the src of the tag it adds; static("django-vue.js") is taken
\* under STATIC_URL = "/static/".
ViewLibraries ==
  << [name |-> "vue", src |-> "https://unpkg.com/vue@next"],
     [name |-> "vue-router", src |-> "https://unpkg.com/vue-router@next"],
     [name |-> "vue3-sfc-loader",
      src |-> "https://cdn.jsdelivr.net/npm/vue3-sfc-loader/dist/vue3-sfc-loader.js"],
     [name |-> "axios", src |-> "https://unpkg.com/axios/dist/axios.min.js"],
     [name |-> "django-vue", src |-> "/static/django-vue.js"] >>

\* The outcome of a piece of get: the document, and whether an exception left it.
Outcome(raised, doc) == [raised |-> raised, doc |-> doc]

\* Lines 86-129 of views.py from the i-th library on: if the library's script is
\* not present, head.append(new_tag); head is None when the document has no
\* head, and the append then raises AttributeError.
RECURSIVE InjectFrom(_, _)
InjectFrom(doc, i) ==
  IF i > Len(ViewLibraries) THEN Outcome(FALSE, doc)
  ELSE IF script_present(doc, ViewLibraries[i].name) THEN InjectFrom(doc, i + 1)
  ELSE IF ~doc.hasHead THEN Outcome(TRUE, doc)
  ELSE InjectFrom(
         [doc EXCEPT !.head =
            Append(@, Node("new_tag", <<i>>, "script", ViewLibraries[i].src, <<>>))],
         i + 1)

\* The libraries DjangoVueComponentMixin.get passes to add_script_if_not_present.
MixinLibraries ==
  << [name |-> "axios", src |-> "https://unpkg.com/axios"],
     [name |-> "vue", src |-> "https://unpkg.com/vue@next"],
     [name |-> "vue-router", src |-> "https://unpkg.com/vue-router@next"],
     [name |-> "vue3-sfc-loader", src |-> "https://cdn.jsdelivr.net/npm/vue3-sfc-loader"] >>

\* add_script_if_not_present(identifier, src) of mixins.py. The filter is
\* lambda x: x and name in x, and no variable name exists (the parameter is
\* called identifier): for a script without src the filter returns x, falsy,
\* and name is never looked up; for a script with a src the lookup raises
\* NameError. So find_all either raises or returns [], any([]) is False, and
\* the append in the body of the if is never reached.
add_script_if_not_present(doc, identifier, src) ==
  IF \E i \in 1..Len(AllScripts(doc)) : AllScripts(doc)[i].src # None
  THEN Outcome(TRUE, doc)
  ELSE Outcome(FALSE, doc)

\* Lines 86-92 of mixins.py from the i-th library on.
RECURSIVE MixinInjectFrom(_, _)
MixinInjectFrom(doc, i) ==
  IF i > Len(MixinLibraries) THEN Outcome(FALSE, doc)
  ELSE LET r == add_script_if_not_present(doc, MixinLibraries[i].name, MixinLibraries[i].src)
       IN  IF r.raised THEN r ELSE MixinInjectFrom(r.doc, i + 1)

-----------------------------------------------------------------------------
(* Views *)

\* The view objects of the model: two instances of one class HomeView set up
\* with different templates, a single-file component, and a view whose template
\* does not render.
Views == {"home_a", "home_b", "about", "broken"}

\* v.__class__.__name__
ClassOf ==
  [ v \in Views |->
    CASE v = "home_a" -> <<"H", "o", "m", "e", "V", "i", "e", "w">>
      [] v = "home_b" -> <<"H", "o", "m", "e", "V", "i", "e", "w">>
      [] v = "about"  -> <<"A", "b", "o", "u", "t", "c", "o", "m", "p", "o", "n", "e", "n", "t">>
      [] v = "broken" -> <<"B", "r", "o", "k", "e", "n", "v", "i", "e", "w">> ]

\* Whether the view is a SingleFileVueComponent.
IsSingleFile == [v \in Views |-> v = "about"]

\* vue_data, vue_emits and vue_props as json.dumps writes them.
DataOf == [v \in Views |-> IF v = "home_b" THEN "{\"n\": 0}" ELSE "{}"]
EmitsOf == [v \in Views |-> IF v = "home_a" THEN "[\"pick\"]" ELSE "[]"]
PropsOf == [v \in Views |-> IF v = "about" THEN "[\"title\"]" ELSE "[]"]

\* What render_to_response(context).render() gives for the view: ok is FALSE
\* when rendering raises, hasBody tells whether the parsed document has a body,
\* markup is the text left of the body once styles and scripts are extracted.
RenderOf ==
  [ v \in Views |->
    CASE v = "home_a" -> [ok |-> TRUE, hasBody |-> TRUE, markup |-> <<"[", "[", "a", "]", "]">>]
      [] v = "home_b" -> [ok |-> TRUE, hasBody |-> TRUE, markup |-> <<"[", "[", "b", "]", "]">>]
      [] v = "about"  -> [ok |-> TRUE, hasBody |-> TRUE, markup |-> <<"[", "[", "[", "c", "]", "]">>]
      [] v = "broken" -> [ok |-> FALSE, hasBody |-> FALSE, markup |-> <<>>] ]

\* self.get_vue_name()
NameOf == [v \in Views |-> get_vue_name(ClassOf[v])]

\* get_vue_template(request): the rewritten markup, or an exception when the
\* template does not render or (DjangoVueComponent only) body is None.
get_vue_template(v) ==
  IF ~RenderOf[v].ok THEN [raised |-> TRUE, value |-> <<>>]
  ELSE IF ~IsSingleFile[v] /\ ~RenderOf[v].hasBody THEN [raised |-> TRUE, value |-> <<>>]
  ELSE [raised |-> FALSE, value |-> DelimiterRewrite(RenderOf[v].markup)]

\* get_vue_definition(request): the statement const <name> = ..., an object
\* literal for a DjangoVueComponent and Vue.defineAsyncComponent(...) for a
\* SingleFileVueComponent.
get_vue_definition(v) ==
  IF IsSingleFile[v]
  THEN [kind |-> "const", name |-> NameOf[v], form |-> "async",
        template |-> get_vue_template(v).value]
  ELSE [kind |-> "const", name |-> NameOf[v], form |-> "object",
        data |-> DataOf[v], emits |-> EmitsOf[v], props |-> PropsOf[v],
        template |-> get_vue_template(v).value]

\* list(self.get_vue_components().values()) + list(self.get_vue_routes().values())
\* without [self]
CandidatesWithoutSelf(comps, rts, self) ==
  [i \in 1..Len(comps) |-> [view |-> comps[i], shared |-> TRUE]]
    \o [i \in 1..Len(rts) |-> [view |-> rts[i], shared |-> TRUE]]

\* list(self.get_vue_components().values()) + list(self.get_vue_routes().values())
\* + [self]. shared tells the objects held by the class-level mappings from
\* self, the object the framework builds for the request.
Candidates(comps, rts, self) ==
  [i \in 1..Len(comps) |-> [view |-> comps[i], shared |-> TRUE]]
    \o [i \in 1..Len(rts) |-> [view |-> rts[i], shared |-> TRUE]]
    \o <<[view |-> self, shared |-> FALSE]>>

\* No deduplication: every candidate.
InstancesAll(cands) == cands

\* {c.get_vue_name(): c for c in candidates}.values(): a dict keeps a key at the
\* place of its first insertion and the value of its last one.
Instances(cands) ==
  LET firsts == SelectSeq([i \in 1..Len(cands) |-> i],
                  LAMBDA i : \A j \in 1..(i - 1) : NameOf[cands[j].view] # NameOf[cands[i].view])
      last(i) == CHOOSE j \in i..Len(cands) :
                   /\ NameOf[cands[j].view] = NameOf[cands[i].view]
                   /\ \A m \in (j + 1)..Len(cands) : NameOf[cands[m].view] # NameOf[cands[i].view]
  IN  [k \in 1..Len(firsts) |-> cands[last(firsts[k])]]

\* The bootstrapping script, vue.string, as its statements in order.
BootstrapScript(comps, rts, self) ==
  LET instances == Instances(Candidates(comps, rts, self))
      definitions == [i \in 1..Len(instances) |-> get_vue_definition(instances[i].view)]
      registrations == [i \in 1..Len(comps) |->
                          [kind |-> "component", key |-> i, name |-> NameOf[comps[i]]]]
      routeList == [i \in 1..Len(rts) |-> [path |-> i, component |-> NameOf[rts[i]]]]
  IN  <<[kind |-> "loadModule"]>>
        \o definitions
        \o <<[kind |-> "createApp", name |-> NameOf[self]]>>
        \o registrations
        \o <<[kind |-> "createRouter", routes |-> routeList],
             [kind |-> "use"],
             [kind |-> "mount"]>>

\* The first instance whose definition cannot be generated, 0 when all can.
FirstFailing(instances) ==
  IF \E i \in 1..Len(instances) : get_vue_template(instances[i].view).raised
  THEN CHOOSE i \in 1..Len(instances) :
         /\ get_vue_template(instances[i].view).raised
         /\ \A j \in 1..(i - 1) : ~get_vue_template(instances[j].view).raised
  ELSE 0

-----------------------------------------------------------------------------
(* The inputs of get *)

MaxComponents == 2
MaxRoutes == 1
MaxHeadScripts == 2
MaxBody == 2
MaxChildren == 1

SeqsUpTo(S, n) == UNION { [1..k -> S] : k \in 0..n }

\* The src of a script the rendered page may already hold; None is an inline script.
PageSrcs ==
  { None, "https://unpkg.com/vue@next", "https://unpkg.com/vue-router@next",
    "https://cdn.jsdelivr.net/npm/vue3-sfc-loader/dist/vue3-sfc-loader.js",
    "https://unpkg.com/axios/dist/axios.min.js", "/static/django-vue.js",
    "/static/app.js" }

MakeHead(srcs) == [i \in 1..Len(srcs) |-> Node("head", <<i>>, "script", srcs[i], <<>>)]

LeafTags == {"style", "script", "p"}

\* The shape of an element directly under body: a style, a script or a paragraph,
\* or a div holding some of them.
ItemShapes ==
  { [tag |-> t, kids |-> <<>>] : t \in LeafTags }
    \cup { [tag |-> "div", kids |-> k] : k \in SeqsUpTo(LeafTags, MaxChildren) }

MakeBody(shape) ==
  [i \in 1..Len(shape) |->
     Node("body", <<i>>, shape[i].tag, None,
          [j \in 1..Len(shape[i].kids) |->
             Node("body", <<i, j>>, shape[i].kids[j], None, <<>>)])]

DefaultBody ==
  MakeBody(<<[tag |-> "style", kids |-> <<>>], [tag |-> "div", kids |-> <<"p", "script">>]>>)

\* A body whose script loads a library.
BodyWithLibrary ==
  << Node("body", <<1>>, "p", None, <<>>),
     Node("body", <<2>>, "script", "https://unpkg.com/axios/dist/axios.min.js", <<>>) >>

DefaultPage == Document(TRUE, <<>>, TRUE, DefaultBody)

\* Pages that differ in their head.
HeadPages ==
  { Document(TRUE, MakeHead(s), TRUE, b) :
      s \in SeqsUpTo(PageSrcs, MaxHeadScripts), b \in {DefaultBody, BodyWithLibrary} }
    \cup { Document(FALSE, <<>>, TRUE, b) : b \in {DefaultBody, BodyWithLibrary} }

\* Pages that differ in their body.
BodyPages ==
  { Document(TRUE, <<>>, TRUE, MakeBody(s)) : s \in SeqsUpTo(ItemShapes, MaxBody) }
    \cup { Document(TRUE, <<>>, FALSE, <<>>) }

NotParsed == Document(FALSE, <<>>, FALSE, <<>>)

\* The request being handled.
CurrentRequest == 1

\* The state when get is entered. The class attributes vue_components and
\* vue_routes and the page the template renders to are the inputs; they are
\* varied one group at a time, the others held at a default.
Init ==
  /\ handler \in {"view", "mixin"}
  /\ \/ /\ components \in SeqsUpTo(Views, MaxComponents)
        /\ routes \in SeqsUpTo(Views, MaxRoutes)
        /\ root \in Views
        /\ page = DefaultPage
     \/ /\ components = <<"home_a">>
        /\ routes = <<"about">>
        /\ root = "home_b"
        /\ page \in HeadPages \cup BodyPages
  /\ content = page
  /\ soup = NotParsed
  /\ styles = <<>>
  /\ scripts = <<>>
  /\ vue = <<>>
  /\ pc = "start"
  /\ viewRequest = [v \in Views |-> 0]
  /\ NameUnused
  /\ RewriteUnused
  /\ RequestsUnused

-----------------------------------------------------------------------------
(* get, step by step *)

\* BeautifulSoup(response.content, parser): views.py parses with "lxml", which
\* leaves a document without head or without body as it is; mixins.py parses
\* with "html5lib", which gives every document a head and a body.
Parsed(parser, doc) ==
  IF parser = "html5lib"
  THEN [doc EXCEPT !.hasHead = TRUE, !.hasBody = TRUE]
  ELSE doc

\* response = super().get(...); response.render(); soup = BeautifulSoup(...)
Parse ==
  /\ pc = "start"
  /\ soup' = Parsed(IF handler = "mixin" THEN "html5lib" ELSE "lxml", content)
  /\ pc' = "inject"
  /\ UNCHANGED <<handler, components, routes, root, page, content, styles, scripts, vue,
                 viewRequest, nameVars, rewriteVars, requestVars>>

\* DjangoVueComponent.get, lines 81-129: the library scripts.
InjectScripts ==
  /\ pc = "inject"
  /\ handler = "view"
  /\ LET r == InjectFrom(soup, 1)
     IN  /\ soup' = r.doc
         /\ pc' = IF r.raised THEN "raised" ELSE "extract"
  /\ UNCHANGED <<handler, components, routes, root, page, content, styles, scripts, vue,
                 viewRequest, nameVars, rewriteVars, requestVars>>

\* DjangoVueComponentMixin.get, lines 80-92: the library scripts.
MixinInjectScripts ==
  /\ pc = "inject"
  /\ handler = "mixin"
  /\ LET r == MixinInjectFrom(soup, 1)
     IN  /\ soup' = r.doc
         /\ pc' = IF r.raised THEN "raised" ELSE "extract"
  /\ UNCHANGED <<handler, components, routes, root, page, content, styles, scripts, vue,
                 viewRequest, nameVars, rewriteVars, requestVars>>

\* A get that goes on with an empty body when the document has none.
ExtractBodyRecovering ==
  /\ pc = "extract"
  /\ styles' = FindAll(soup.body, "style")
  /\ scripts' = FindAll(Extracted(soup.body, "style"), "script")
  /\ soup' = [soup EXCEPT !.body = <<>>]
  /\ pc' = "build"
  /\ UNCHANGED <<handler, components, routes, root, page, content, vue,
                 viewRequest, nameVars, rewriteVars, requestVars>>

\* Lines 131-135 of views.py (94-98 of mixins.py): body = soup.find("body") is
\* None when the document has no body, and body.find_all raises AttributeError.
ExtractBody ==
  /\ pc = "extract"
  /\ IF ~soup.hasBody
     THEN /\ pc' = "raised"
          /\ UNCHANGED <<soup, styles, scripts>>
     ELSE /\ styles' = FindAll(soup.body, "style")
          /\ scripts' = FindAll(Extracted(soup.body, "style"), "script")
          /\ soup' = [soup EXCEPT !.body = <<>>]
          /\ pc' = "build"
  /\ UNCHANGED <<handler, components, routes, root, page, content, vue,
                 viewRequest, nameVars, rewriteVars, requestVars>>

\* The request attribute of the view objects after the first n instances had
\* their template rendered: get_vue_template starts with self.request = request.
RequestsAfter(instances, n) ==
  [v \in Views |->
     IF \E i \in 1..n : instances[i].shared /\ instances[i].view = v
     THEN CurrentRequest
     ELSE viewRequest[v]]

\* Lines 137-167 of views.py (100-130 of mixins.py): the bootstrapping script.
\* An exception of get_vue_definition leaves get.
BuildVue ==
  /\ pc = "build"
  /\ LET instances == Instances(Candidates(components, routes, root))
         failing == FirstFailing(instances)
     IN  IF failing # 0
         THEN /\ viewRequest' = RequestsAfter(instances, failing)
              /\ pc' = "raised"
              /\ UNCHANGED vue
         ELSE /\ viewRequest' = RequestsAfter(instances, Len(instances))
              /\ vue' = BootstrapScript(components, routes, root)
              /\ pc' = "assemble"
  /\ UNCHANGED <<handler, components, routes, root, page, content, soup, styles, scripts,
                 nameVars, rewriteVars, requestVars>>

\* The body get builds: the styles, <div id="app">, the script, the scripts.
NewBody ==
  styles
    \o << Node("app", <<>>, "div", None, <<>>),
          [Node("vue", <<>>, "script", None, <<>>) EXCEPT !.string = vue] >>
    \o scripts

\* Lines 169-176 of views.py (132-139 of mixins.py): the new body, then
\* response.content = soup.renderContents() and return response.
Assemble ==
  /\ pc = "assemble"
  /\ soup' = [soup EXCEPT !.body = NewBody]
  /\ content' = soup'
  /\ pc' = "done"
  /\ UNCHANGED <<handler, components, routes, root, page, styles, scripts, vue,
                 viewRequest, nameVars, rewriteVars, requestVars>>

Next ==
  \/ Parse
  \/ InjectScripts
  \/ MixinInjectScripts
  \/ ExtractBody
  \/ BuildVue
  \/ Assemble

Spec == Init /\ [][Next]_vars

-----------------------------------------------------------------------------
(* Requests handled at the same time: get_vue_template on the view objects
   of the class-level mappings. vue_components and vue_routes are class
   attributes, so every request of the process works on the same view objects;
   self is built by the framework for each request. *)

NumRequests == 2

Requests == 1..NumRequests

\* The instances whose template a request renders, in order.
RequestInstances == Instances(Candidates(components, routes, root))

RequestsInit ==
  /\ components \in SeqsUpTo(Views, MaxComponents)
  /\ routes \in SeqsUpTo(Views, MaxRoutes)
  /\ root \in Views
  /\ viewRequest = [v \in Views |-> 0]
  /\ reqPc = [r \in Requests |-> "assign"]
  /\ reqIdx = [r \in Requests |-> 1]
  /\ reqUsed = [r \in Requests |-> <<>>]
  /\ handler = Unused /\ page = Unused /\ content = Unused /\ soup = Unused
  /\ styles = Unused /\ scripts = Unused /\ vue = Unused /\ pc = Unused
  /\ NameUnused
  /\ RewriteUnused

\* get_vue_template, line 59 (58 in mixins.py): self.request = request
AssignRequest(r) ==
  /\ reqPc[r] = "assign"
  /\ LET c == RequestInstances[reqIdx[r]]
     IN  viewRequest' = IF c.shared THEN [viewRequest EXCEPT ![c.view] = r] ELSE viewRequest
  /\ reqPc' = [reqPc EXCEPT ![r] = "render"]
  /\ UNCHANGED <<getVars, reqIdx, reqUsed, nameVars, rewriteVars>>

\* get_vue_template, lines 60-74: render_to_response builds the response with
\* request=self.request, read now; then the next instance, if rendering worked.
RenderTemplate(r) ==
  /\ reqPc[r] = "render"
  /\ LET c == RequestInstances[reqIdx[r]]
     IN  /\ reqUsed' = [reqUsed EXCEPT ![r] = Append(@, IF c.shared THEN viewRequest[c.view] ELSE r)]
         /\ reqPc' = [reqPc EXCEPT ![r] =
                        IF get_vue_template(c.view).raised THEN "raised"
                        ELSE IF reqIdx[r] = Len(RequestInstances) THEN "done"
                        ELSE "assign"]
         /\ reqIdx' = [reqIdx EXCEPT ![r] =
                        IF get_vue_template(c.view).raised \/ reqIdx[r] = Len(RequestInstances)
                        THEN @ ELSE @ + 1]
  /\ UNCHANGED <<getVars, viewRequest, nameVars, rewriteVars>>

RequestsNext == \E r \in Requests : AssignRequest(r) \/ RenderTemplate(r)

SpecRequests == RequestsInit /\ [][RequestsNext]_vars

-----------------------------------------------------------------------------
(* Claims *)

\* The elements of a sequence, as a set.
Range(s) == { s[i] : i \in 1..Len(s) }

\* get has built the bootstrapping script.
ScriptBuilt == pc \in {"assemble", "done"}

\* The candidates of the handled view, in the order of the code.
Cands == Candidates(components, routes, root)

(* C1 *)

\* The library a script src loads.
LibraryOf ==
  [ s \in PageSrcs \ {None} |->
    CASE s = "https://unpkg.com/vue@next" -> "vue"
      [] s = "https://unpkg.com/vue-router@next" -> "vue-router"
      [] s = "https://cdn.jsdelivr.net/npm/vue3-sfc-loader/dist/vue3-sfc-loader.js" -> "vue3-sfc-loader"
      [] s = "https://unpkg.com/axios/dist/axios.min.js" -> "axios"
      [] s = "/static/django-vue.js" -> "django-vue"
      [] OTHER -> "other" ]

Loaded(doc, library) ==
  \E n \in Range(AllScripts(doc)) : n.src # None /\ LibraryOf[n.src] = library

\* C1: after DjangoVueComponent.get returns, the document holds, for each of vue,
\* vue-router, vue3-sfc-loader, axios and django-vue, a script tag loading that
\* library, whatever scripts the rendered page held.
C1_EveryLibraryLoaded ==
  (handler = "view" /\ pc = "done") =>
    \A i \in 1..Len(ViewLibraries) : Loaded(content, ViewLibraries[i].name)

(* C2 *)

\* C2: no derived name is declared as a const more than once in the
\* bootstrapping script.
C2_NamesDefinedOnce ==
  ScriptBuilt =>
    \A i, j \in 1..Len(vue) :
      (vue[i].kind = "const" /\ vue[j].kind = "const" /\ vue[i].name = vue[j].name) => i = j

\* The same view is sub-component, route and root, and another view of the same
\* derived name is a sub-component too.
C2_Witness ==
  /\ pc = "done"
  /\ components = <<"home_a", "home_b">>
  /\ routes = <<"home_b">>
  /\ root = "home_b"

(* C3 *)

\* C3: handling a request writes to no object another request can read: the
\* view objects of the class-level mappings stay as they were.
C3_NoSharedWrite == \A v \in Views : viewRequest[v] = 0

\* What C3 would give: every template of a request is rendered with that request.
RendersWithOwnRequest ==
  \A r \in Requests : \A i \in 1..Len(reqUsed[r]) : reqUsed[r][i] = r

(* C4 *)

\* C4: the delimiter rewrite is idempotent on its own output: rewriting the
\* rewritten text changes nothing, and the rewritten text holds no "[[" and no "]]".
C4_RewriteIdempotent ==
  rewritten.done =>
    /\ DelimiterRewrite(rewritten.value) = rewritten.value
    /\ ~Contains(<<"[", "[">>, rewritten.value)
    /\ ~Contains(<<"]", "]">>, rewritten.value)

\* A template with both delimiters, overlapping candidates included, was rewritten.
C4_Witness ==
  /\ rewritten.done
  /\ Contains(<<"[", "[", "[">>, template)
  /\ Contains(<<"]", "]">>, template)
  /\ rewritten.value # template

(* C5 *)

\* The document has no head and some library script would have to be added.
HeadMissingWhenNeeded ==
  /\ ~page.hasHead
  /\ \E i \in 1..Len(ViewLibraries) : ~script_present(page, ViewLibraries[i].name)

\* A view whose definition get has to generate does not render: the last
\* candidate of some derived name.
SomeTemplateFails ==
  \E i \in 1..Len(Cands) :
    /\ \A j \in (i + 1)..Len(Cands) : NameOf[Cands[j].view] # NameOf[Cands[i].view]
    /\ ~RenderOf[Cands[i].view].ok

\* C5: DjangoVueComponent.get recovers from no failure. With no head where a library script is to
\* be injected, with no body, or with a template that does not render, get never
\* returns; and response.content is replaced only by the last step, so it is
\* still the rendered page whenever get has not returned, an exception included.
C5_NoRecovery ==
  /\ pc # "done" => content = page
  /\ (handler = "view" /\ HeadMissingWhenNeeded) => pc \in {"start", "inject", "raised"}
  /\ (handler = "view" /\ ~page.hasBody) => pc \in {"start", "inject", "extract", "raised"}
  /\ (handler = "view" /\ SomeTemplateFails) =>
       pc \in {"start", "inject", "extract", "build", "raised"}

\* A template failed after get had added scripts to the head and emptied the
\* body of the parsed document.
C5_Witness ==
  /\ handler = "view"
  /\ pc = "raised"
  /\ SomeTemplateFails
  /\ soup.head # page.head
  /\ soup.body # page.body

(* C6 *)

DefinedBefore(name, i) ==
  \E j \in 1..(i - 1) : vue[j].kind = "const" /\ vue[j].name = name

\* C6: the script is, in this order, the loadModule binding, the definitions,
\* createApp, the registrations, the router, app.use and app.mount; and every
\* name createApp, a registration or a route refers to is defined by a
\* statement before it.
C6_DefinedBeforeUse ==
  ScriptBuilt =>
    LET n == Len(vue)
    IN  /\ n >= 5
        /\ vue[1].kind = "loadModule"
        /\ vue[n - 2].kind = "createRouter"
        /\ vue[n - 1].kind = "use"
        /\ vue[n].kind = "mount"
        /\ \E a \in 2..(n - 3) :
             /\ vue[a].kind = "createApp"
             /\ \A i \in 2..(a - 1) : vue[i].kind = "const"
             /\ \A i \in (a + 1)..(n - 3) : vue[i].kind = "component"
        /\ \A i \in 1..n :
             /\ vue[i].kind \in {"createApp", "component"} => DefinedBefore(vue[i].name, i)
             /\ vue[i].kind = "createRouter" =>
                  \A k \in 1..Len(vue[i].routes) : DefinedBefore(vue[i].routes[k].component, i)

\* A script with registrations and routes whose root is no sub-component and no route.
C6_Witness ==
  /\ pc = "done"
  /\ Len(components) = MaxComponents
  /\ Len(routes) = MaxRoutes
  /\ \A i \in 1..(Len(Cands) - 1) : NameOf[Cands[i].view] # NameOf[root]

(* C7 *)

\* The definition a name resolves to in the script.
Resolved(name) ==
  vue[CHOOSE j \in 1..Len(vue) : vue[j].kind = "const" /\ vue[j].name = name]

\* C7: the name emitted for each sub-component, each route and the
\* root resolves to the definition generated from that same view.
C7_OwnDefinition ==
  ScriptBuilt =>
    \A i \in 1..Len(Cands) :
      Resolved(NameOf[Cands[i].view]) = get_vue_definition(Cands[i].view)

(* C9 *)

\* Document order of two paths of the rendered page.
PathBefore(p, q) ==
  \E k \in 1..Len(q) :
    /\ \A m \in 1..(k - 1) : m <= Len(p) /\ p[m] = q[m]
    /\ k > Len(p) \/ p[k] < q[k]

\* The elements of that tag anywhere in the body of the rendered page.
PageElements(tag) == { n \in Range(Descendants(page.body)) : n.tag = tag }

\* The part of the sequence from lo to hi is exactly the given elements, each
\* once, in document order.
HoldsInOrder(b, lo, hi, elements) ==
  /\ hi - lo + 1 = Cardinality(elements)
  /\ { b[i] : i \in lo..hi } = elements
  /\ \A i, j \in lo..hi : i < j => PathBefore(b[i].id.at, b[j].id.at)

\* C9: after get returns the body is exactly the styles of the rendered body in
\* document order, the div app, the bootstrapping script, and the scripts of the
\* rendered body in document order; nothing else is kept, nothing lost or doubled.
C9_BodyLayout ==
  pc = "done" =>
    LET b == content.body
        s == Cardinality(PageElements("style"))
        t == Cardinality(PageElements("script"))
    IN  /\ Len(b) = s + 2 + t
        /\ HoldsInOrder(b, 1, s, PageElements("style"))
        /\ b[s + 1].tag = "div" /\ b[s + 1].id.origin = "app" /\ b[s + 1].children = <<>>
        /\ b[s + 2].tag = "script" /\ b[s + 2].id.origin = "vue" /\ b[s + 2].string = vue
        /\ HoldsInOrder(b, s + 3, s + 2 + t, PageElements("script"))

\* A body with a style inside a div, and after the div a style and nothing else:
\* the nested style is found and comes first.
C9_Witness ==
  /\ pc = "done"
  /\ Len(page.body) = 2
  /\ page.body[1].tag = "div"
  /\ Len(page.body[1].children) = 1
  /\ page.body[1].children[1].tag = "style"
  /\ page.body[2].tag = "style"

(* C10 *)

\* The head holds a tag that add_script_if_not_present made with this src.
Appended(src) ==
  \E n \in Range(soup.head) : n.id.origin = "new_tag" /\ n.src = src

\* C10: once DjangoVueComponentMixin.get is past the library scripts, a tag
\* with the given src was appended to the head for exactly the libraries of
\* which the document had no script (none of the srcs it appends contains the
\* identifier of a library looked for after it).
C10_MixinAddsMissing ==
  (handler = "mixin" /\ pc \in {"extract", "build", "assemble", "done"}) =>
    \A i \in 1..Len(MixinLibraries) :
      Appended(MixinLibraries[i].src) <=> ~script_present(page, MixinLibraries[i].name)

(* C8 *)

\* str.lower on one character
ToLower(c) ==
  IF \E i \in 1..Len(UpperCase) : UpperCase[i] = c
  THEN LowerCase[CHOOSE i \in 1..Len(UpperCase) : UpperCase[i] = c]
  ELSE c

LowerAll(s) == [i \in 1..Len(s) |-> ToLower(s[i])]

\* The suffix removal the claim describes: the pattern matched with re.IGNORECASE.
StripSuffixIgnoreCase(s) ==
  IF EndsWith(LowerAll(s), SuffixComponent) THEN DropLast(s, Len(SuffixComponent))
  ELSE IF EndsWith(LowerAll(s), SuffixView) THEN DropLast(s, Len(SuffixView))
  ELSE s

\* C8: get_vue_name removes one trailing "component" or "view", matched
\* case-insensitively, and camelizes the rest; without such a suffix the class
\* name is only camelized.
C8_SuffixCaseInsensitive ==
  vueName.done => vueName.value = camelize(StripSuffixIgnoreCase(className))

====
